---- MODULE Spec2Model ----
(***************************************************************************)
(* Model of the price cache of StrideClient (src/stride_client.py) and of  *)
(* the fee endpoints of src/main.py.                                       *)
(*                                                                         *)
(* The program runs on one asyncio event loop: a coroutine runs without    *)
(* interruption until it awaits something that is not ready.  Each action  *)
(* below is therefore one synchronous block of a coroutine, from one       *)
(* suspension point (lock wait, HTTP round trip) to the next.  The wall    *)
(* clock (datetime.now) advances between blocks (Tick), not inside one.    *)
(* One clock unit is 150 seconds, so the cache window of 5 minutes is 2.   *)
(***************************************************************************)
EXTENDS Integers, Sequences, FiniteSets, TLC

\* ---------------------------------------------------------------- bounds
MaxLen == 2      \* longest chain list handed to get_token_prices_batch
MaxTime == 2     \* the clock stops ticking here (clock units)
MaxPrice == 1    \* upstream prices are 1..MaxPrice
NTasks == 2      \* concurrent callers in SpecConc
MaxStake == 1    \* total delegated stake is -1..MaxStake

\* ------------------------------------------------------- static tables
\* Chain names: three with a CoinGecko id (terra and terra2 share one) and
\* one name that is in no table.
Chains == {"cosmos", "terra", "terra2", "bitcoin"}

COINGECKO_IDS ==
  ("cosmos" :> "cosmos") @@ ("terra" :> "terra-luna-2") @@ ("terra2" :> "terra-luna-2")

Ids == {COINGECKO_IDS[c] : c \in DOMAIN COINGECKO_IDS}

\* CHAIN_ID_MAP: the chain names calculate_daily_fee recognizes.
CHAIN_ID_MAP ==
  ("cosmos" :> "cosmoshub-4") @@ ("terra" :> "phoenix-1") @@ ("terra2" :> "phoenix-1")

\* Path parameters of /api/{chain}/stats/fees: the chain names and one name
\* with a capital letter.
Names == Chains \cup {"Terra"}

\* str.lower() on Names.
Lower(n) == IF n = "Terra" THEN "terra" ELSE n

\* main.py lines 129-133: lower-case the name, then terra -> terra2.
Normalize(n) == IF Lower(n) = "terra" THEN "terra2" ELSE Lower(n)

\* _cache_duration = timedelta(minutes=5); the clock counts units of 150 s.
CacheDuration == 2

Tasks == 1 .. NTasks

\* ------------------------------------------------------------- values
\* Optional[float] values and dictionary lookups, as tagged records.
Val(v) == [k |-> "val", v |-> v]
None == [k |-> "None", v |-> 0]
NoKey == [k |-> "NoKey", v |-> 0]       \* key not in the dict
Bad == [k |-> "Bad", v |-> 0]           \* a JSON value that is not an object

Prices == 1 .. MaxPrice

\* What the oracle can hold for one id: a price, nothing, or a malformed value.
OracleValues == {Val(p) : p \in Prices} \cup {None, Bad}

NoEntry == [has |-> FALSE, price |-> 0, timestamp |-> 0]
Entry(p, ts) == [has |-> TRUE, price |-> p, timestamp |-> ts]

EmptyCache == [c \in Chains |-> NoEntry]
EmptyPrices == [c \in Chains |-> NoKey]

Range(s) == {s[i] : i \in DOMAIN s}

\* dict.get(key): None for a missing key
DictGet(d, c) == IF d[c] = NoKey THEN None ELSE d[c]

Keys(d) == {c \in Chains : d[c] # NoKey}

\* Ways an oracle request fails before any entry is written.
FailKinds == {"network", "status", "timeout", "json"}

\* ------------------------------------------------ get_token_prices_batch
\* Variant: the window is one clock unit too short.
IsPriceCachedShort(c, cch, t) ==
  /\ cch[c].has
  /\ t - cch[c].timestamp < CacheDuration - 1

\* Variant: an entry whose age is exactly the window is still served.
IsPriceCachedLate(c, cch, t) ==
  /\ cch[c].has
  /\ t - cch[c].timestamp <= CacheDuration

IsPriceCached(c, cch, t) ==
  /\ cch[c].has
  /\ t - cch[c].timestamp < CacheDuration

RECURSIVE PartitionFrom(_, _, _, _, _)
PartitionFrom(chains, i, cch, t, acc) ==
  IF i > Len(chains) THEN acc
  ELSE LET c == chains[i] IN
       IF IsPriceCached(c, cch, t)
       THEN PartitionFrom(chains, i + 1, cch, t,
                          [acc EXCEPT !.prices[c] = Val(cch[c].price)])
       ELSE PartitionFrom(chains, i + 1, cch, t,
                          [acc EXCEPT !.fetch = Append(@, c)])

\* Variant: the cache is not consulted, every chain is fetched.
PartitionNoCache(chains, cch, t) == [prices |-> EmptyPrices, fetch |-> chains]

Partition(chains, cch, t) ==
  PartitionFrom(chains, 1, cch, t, [prices |-> EmptyPrices, fetch |-> <<>>])

\* chain_id_map[coingecko_id] = chain on an insertion-ordered dict: a new key
\* goes last, an existing key keeps its place and gets the new value.
MapPut(map, id, c) ==
  IF \E j \in DOMAIN map : map[j].id = id
  THEN [j \in DOMAIN map |->
          IF map[j].id = id THEN [id |-> id, chain |-> c] ELSE map[j]]
  ELSE Append(map, [id |-> id, chain |-> c])

RECURSIVE ResolveFrom(_, _, _)
ResolveFrom(fetch, i, acc) ==
  IF i > Len(fetch) THEN acc
  ELSE LET c == fetch[i] IN
       IF c \in DOMAIN COINGECKO_IDS
       THEN ResolveFrom(fetch, i + 1,
                        [ids |-> Append(acc.ids, COINGECKO_IDS[c]),
                         map |-> MapPut(acc.map, COINGECKO_IDS[c], c)])
       ELSE ResolveFrom(fetch, i + 1, acc)

ResolveIds(fetch) == ResolveFrom(fetch, 1, [ids |-> <<>>, map |-> <<>>])

\* Variant: an id without a price in the response is cached without one
\* (0 is no price of Prices).
StoreResultNull(st, e, data, ts) ==
  LET v == data[e.id] IN
  IF v = Bad THEN [st EXCEPT !.raised = TRUE]
  ELSE IF v # None
  THEN [st EXCEPT !.prices[e.chain] = v,
                  !.cache[e.chain] = Entry(v.v, ts)]
  ELSE [st EXCEPT !.prices[e.chain] = None,
                  !.cache[e.chain] = Entry(0, ts)]

\* Variant: an id without a price in the response evicts the chain's entry.
StoreResultEvict(st, e, data, ts) ==
  LET v == data[e.id] IN
  IF v = Bad THEN [st EXCEPT !.raised = TRUE]
  ELSE IF v # None
  THEN [st EXCEPT !.prices[e.chain] = v,
                  !.cache[e.chain] = Entry(v.v, ts)]
  ELSE [st EXCEPT !.prices[e.chain] = None,
                  !.cache[e.chain] = NoEntry]

\* One iteration of the loop over chain_id_map.items().
StoreResult(st, e, data, ts) ==
  LET v == data[e.id] IN
  IF v = Bad THEN [st EXCEPT !.raised = TRUE]
  ELSE IF v # None
  THEN [st EXCEPT !.prices[e.chain] = v,
                  !.cache[e.chain] = Entry(v.v, ts)]
  ELSE [st EXCEPT !.prices[e.chain] = None]

\* Iterations k .. stop of that loop; an exception ends it.
RECURSIVE WriteLoop(_, _, _, _, _, _)
WriteLoop(map, data, k, stop, st, ts) ==
  IF k > stop \/ st.raised THEN st
  ELSE WriteLoop(map, data, k + 1, stop, StoreResult(st, map[k], data, ts), ts)

\* The except block: None for every chain to fetch that has no result yet.
ExceptFill(prices, fetch) ==
  [c \in Chains |->
     IF c \in Range(fetch) /\ prices[c] = NoKey THEN None ELSE prices[c]]

\* Variant: only the HTTP client's own errors are caught.
CaughtHttpOnly(kind) == kind \in {"network", "status", "timeout"}

\* `except Exception` catches every failure of the try block.
Caught(kind) == TRUE

\* ------------------------------------------------------------ fee endpoints
\* supported_chains of get_all_fees: of its fourteen names, those of Chains.
SupportedChains == <<"cosmos", "terra2">>

\* Variant: a missing price counts as 1.
PriceOrOne(v) == IF v.k = "val" THEN v.v ELSE 1

\* if not token_price: token_price = 0.0
PriceOrZero(v) == IF v.k = "val" THEN v.v ELSE 0

\* calculate_daily_fee lines 245-274: dailyFees is
\* staked * rate * 0.0005 * price / 10^decimals and dailyRevenue a tenth of
\* it, both counted here in units of 10^-(decimals + 5) USD.
DailyFee(hz, v) ==
  LET x == hz.staked * hz.rate * 5 * PriceOrZero(v)
  IN [k |-> "fees", dailyFees |-> 10 * x, dailyRevenue |-> x]

\* Variant: every exception of the calculation is answered with 500.
HttpOfAlways500(err) == 500

\* main.py lines 140-145: ValueError is answered with 404, every other
\* exception with 500.
HttpOf(err) == IF err = "ValueError" THEN 404 ELSE 500

\* Variant: a failing chain is not caught in the loop.
PerChainCaughtNo == FALSE

\* main.py line 101: `except Exception` around each calculate_daily_fee.
PerChainCaught == TRUE


\* Variant: the loop awaits after each iteration.
AwaitInWriteLoopYes == TRUE

\* The write-back loop holds no await: it runs to its end in one block.
AwaitInWriteLoop == FALSE

\* ------------------------------------------------------------------ state
VARIABLES
  cache,    \* _price_cache: chain -> entry
  lock,     \* _price_fetch_lock: 0 when free, else the task holding it
  now,      \* the wall clock
  pc,       \* where each task is: idle, lock, http, write, done
  fr,       \* the locals of each task's call
  rec,      \* the call a task has just returned from (pc = "done")
  last,     \* the previous get_token_prices_batch call of task 1, while recent
  torn,     \* some cache read happened in the middle of a write-back
  overlap,  \* some cache read happened while another call awaited the oracle
  refetch   \* some call that waited for the lock asked the oracle again

vars == <<cache, lock, now, pc, fr, rec, last, torn, overlap, refetch>>

NoData == [i \in Ids |-> None]

\* Bodies the oracle can answer a request for ids with.
DataFor(ids) ==
  {d \in [Ids -> OracleValues] : \A i \in Ids \ Range(ids) : d[i] = None}

NoLast ==
  [valid |-> FALSE, set |-> {}, prices |-> EmptyPrices, t |-> 0,
   answered |-> FALSE, data |-> NoData, cache1 |-> EmptyCache]

\* What get_host_zone and the float() conversions can give for one chain:
\* no host zone (request failed, or none registered), a field that is a
\* string float() cannot parse, a field that is null, or a redemption rate
\* and a total delegated stake.
NoZone == [k |-> "none", rate |-> 0, staked |-> 0]
BadZone == [k |-> "bad", rate |-> 0, staked |-> 0]
NullZone == [k |-> "null", rate |-> 0, staked |-> 0]
Zone(r, s) == [k |-> "ok", rate |-> r, staked |-> s]

HostZones == {NoZone, BadZone, NullZone} \cup {Zone(1, s) : s \in -1 .. MaxStake}

\* The exception calculate_daily_fee raises for a host zone it cannot use:
\* ValueError at line 230 and from float() of a string, TypeError from
\* float() of null.
ErrOf(hz) == IF hz.k = "null" THEN "TypeError" ELSE "ValueError"

\* Entries of the chains mapping of /api/all/stats/fees.
NoResult == [k |-> "none", dailyFees |-> 0, dailyRevenue |-> 0]
ErrEntry == [k |-> "error", dailyFees |-> 0, dailyRevenue |-> 0]
FeeEntry(f, r) == [k |-> "fees", dailyFees |-> f, dailyRevenue |-> r]

NoResults == [c \in Chains |-> NoResult]
NoZones == [c \in Chains |-> NoZone]

NoFrame ==
  [op |-> "none", chains |-> <<>>, prices |-> EmptyPrices, fetch |-> <<>>,
   ids |-> <<>>, map |-> <<>>, k |-> 0, ts |-> 0, data |-> NoData,
   cache0 |-> EmptyCache, now0 |-> 0, reqs |-> <<>>, first |-> NoLast,
   phase |-> "none", i |-> 0, results |-> NoResults, hzlog |-> NoZones,
   plog |-> EmptyPrices, pre |-> 0, hzreqs |-> 0]

NoRec ==
  [op |-> "none", chains |-> <<>>, status |-> "none", prices |-> EmptyPrices,
   ret |-> None, fetch |-> <<>>, reqs |-> <<>>, failed |-> FALSE,
   answered |-> FALSE, data |-> NoData, cache0 |-> EmptyCache, now0 |-> 0,
   cache1 |-> EmptyCache, now1 |-> 0, first |-> NoLast,
   http |-> 0, results |-> NoResults, hzlog |-> NoZones,
   plog |-> EmptyPrices, pre |-> 0, hzreqs |-> 0]

Init ==
  /\ cache = EmptyCache
  /\ lock = 0
  /\ now = 0
  /\ pc = [t \in Tasks |-> "idle"]
  /\ fr = [t \in Tasks |-> NoFrame]
  /\ rec = [t \in Tasks |-> NoRec]
  /\ last = NoLast
  /\ torn = FALSE
  /\ overlap = FALSE
  /\ refetch = FALSE

\* No caller is just now taking a result: a returned call is taken by its
\* caller (Return) before anything else happens.
Quiet == \A u \in Tasks : pc[u] # "done"

\* Task u has run some but not all iterations of its write-back loop.
HalfWritten(u) ==
  /\ pc[u] = "write"
  /\ fr[u].k > 1
  /\ fr[u].k <= Len(fr[u].map)

\* Bookkeeping of a read of _price_cache by task t.
ReadCache(t) ==
  /\ torn' = (torn \/ \E u \in Tasks \ {t} : HalfWritten(u))
  /\ overlap' = (overlap \/ \E u \in Tasks \ {t} : pc[u] \in {"http", "write"})

\* A request handler answers: get_all_fees with 200 and the chains mapping
\* or with 500, get_chain_fees with 200 and the fees, with 404 or with 500.
Finish(t, f, http) ==
  /\ pc' = [pc EXCEPT ![t] = "done"]
  /\ fr' = [fr EXCEPT ![t] = NoFrame]
  /\ rec' = [rec EXCEPT ![t] =
       [NoRec EXCEPT !.op = f.op, !.status = "ok", !.http = http,
                     !.results = f.results, !.reqs = f.reqs,
                     !.hzlog = f.hzlog, !.plog = f.plog, !.pre = f.pre,
                     !.now1 = now, !.hzreqs = f.hzreqs,
                     !.chains = IF f.op = "one" THEN f.chains ELSE <<>>]]

\* main.py lines 96-109: go on with chain f.i of the loop, or return.  Every
\* name of supported_chains is a key of CHAIN_ID_MAP, so line 225 of
\* calculate_daily_fee does not raise here and the next suspension point is
\* the host-zone request.
Step(t, f) ==
  IF f.i > Len(SupportedChains)
  THEN Finish(t, f, 200)
  ELSE /\ pc' = [pc EXCEPT ![t] = "hz"]
       /\ fr' = [fr EXCEPT ![t] = [f EXCEPT !.hzreqs = @ + 1]]
       /\ UNCHANGED rec

\* calculate_daily_fee raised for chain f.i: main.py lines 101-107, or the
\* exception reaching the outer handler of lines 111-113.
ChainFailed(t, f) ==
  IF PerChainCaught
  THEN Step(t, [f EXCEPT !.results[SupportedChains[f.i]] = ErrEntry,
                         !.i = @ + 1])
  ELSE Finish(t, f, 500)

\* calculate_daily_fee lines 256-274 for chain f.i, with the price v that
\* get_token_price returned.
ChainPriced(t, f, v) ==
  LET c == SupportedChains[f.i] IN
  Step(t, [f EXCEPT !.results[c] = DailyFee(f.hzlog[c], v),
                    !.plog[c] = v, !.i = @ + 1])

\* get_chain_fees: calculate_daily_fee raised err (main.py lines 140-145).
OneFailed(t, f, err) == Finish(t, f, HttpOf(err))

\* get_chain_fees: calculate_daily_fee lines 256-274 with the price v, then
\* main.py line 138.
OnePriced(t, f, v) ==
  LET c == f.chains[1] IN
  Finish(t, [f EXCEPT !.results[c] = DailyFee(f.hzlog[c], v), !.plog[c] = v],
         200)

\* calculate_daily_fee raised err, in the handler of frame f.
Failed(t, f, err) ==
  IF f.op = "one" THEN OneFailed(t, f, err) ELSE ChainFailed(t, f)

\* get_token_price returned v to calculate_daily_fee, in the handler of f.
Priced(t, f, v) ==
  IF f.op = "one" THEN OnePriced(t, f, v) ELSE ChainPriced(t, f, v)

\* The chain calculate_daily_fee is running for in frame f.
CurChain(f) == IF f.op = "one" THEN f.chains[1] ELSE SupportedChains[f.i]

\* Variant: the lock is released only when the request did not fail.
ReleaseOnSuccess(l, t, failed) == IF l = t /\ ~ failed THEN 0 ELSE l

\* Leaving the `async with` block releases the lock, however it is left.
Release(l, t, failed) == IF l = t THEN 0 ELSE l

\* The call of task t returns (or raises) to its caller; the `async with`
\* block, if entered, is left and the lock released.
Exit(t, f, prices, cch, status, failed, answered) ==
  /\ cache' = cch
  /\ lock' = Release(lock, t, failed)
  /\ IF f.op \in {"all", "one"}
     THEN IF f.phase = "prefetch"
          THEN IF status = "raised"
               THEN Finish(t, f, 500)
               ELSE Step(t, [f EXCEPT !.i = 1, !.pre = Len(f.reqs)])
          ELSE IF status = "raised"
               THEN Failed(t, f, "Exception")
               ELSE Priced(t, f, DictGet(prices, f.chains[1]))
     ELSE /\ pc' = [pc EXCEPT ![t] = "done"]
          /\ fr' = [fr EXCEPT ![t] = NoFrame]
          /\ rec' = [rec EXCEPT ![t] =
               [NoRec EXCEPT
                  !.op = f.op, !.chains = f.chains, !.status = status,
                  !.prices = prices,
                  !.ret = IF f.op = "get" /\ status = "ok"
                          THEN DictGet(prices, f.chains[1]) ELSE None,
                  !.fetch = f.fetch, !.reqs = f.reqs, !.failed = failed,
                  !.answered = answered, !.data = f.data,
                  !.cache0 = f.cache0, !.now0 = f.now0,
                  !.cache1 = cch, !.now1 = now, !.first = f.first]]

\* The oracle's price of the id of every chain of the list is in the cache,
\* fresh, under a chain of the list.
Collapsed(chains, cch, t) ==
  \A c \in Range(chains) :
    /\ c \in DOMAIN COINGECKO_IDS
    /\ \E d \in Range(chains) \cap DOMAIN COINGECKO_IDS :
         /\ COINGECKO_IDS[d] = COINGECKO_IDS[c]
         /\ IsPriceCached(d, cch, t)

\* Lines 140-174: with the lock taken, partition the chains, resolve the
\* ids and either send the one request or return at once.
Proceed(t, f0) ==
  LET p == Partition(f0.chains, cache, now)
      r == ResolveIds(p.fetch)
      f == [f0 EXCEPT !.prices = p.prices, !.fetch = p.fetch, !.ids = r.ids,
                      !.map = r.map, !.cache0 = cache, !.now0 = now]
  IN /\ ReadCache(t)
     /\ refetch' = (refetch \/ (pc[t] = "lock" /\ r.ids # <<>>
                                 /\ Collapsed(f0.chains, cache, now)))
     /\ IF r.ids # <<>>
        THEN /\ lock' = t
             /\ pc' = [pc EXCEPT ![t] = "http"]
             /\ fr' = [fr EXCEPT ![t] = [f EXCEPT !.reqs = Append(@, r.ids)]]
             /\ UNCHANGED <<cache, rec>>
        ELSE Exit(t, f, p.prices, cache, "ok", FALSE, FALSE)

\* Variant: the lock is not waited for.
EnterBatchNoLock(t, f0) == Proceed(t, f0)

\* Line 140: `async with self._price_fetch_lock` goes on without suspending
\* when the lock is free and waits otherwise.
EnterBatch(t, f0) ==
  IF lock = 0
  THEN Proceed(t, f0)
  ELSE /\ pc' = [pc EXCEPT ![t] = "lock"]
       /\ fr' = [fr EXCEPT ![t] = f0]
       /\ UNCHANGED <<cache, lock, rec, torn, overlap, refetch>>

\* The previous call, when it asked for the same set of chains.
FirstOf(t, chains) ==
  IF t = 1 /\ last.valid /\ last.set = Range(chains) THEN last ELSE NoLast

\* A caller invokes get_token_prices_batch(chains).
CallBatch(t, chains) ==
  /\ pc[t] = "idle"
  /\ Quiet
  /\ EnterBatch(t, [NoFrame EXCEPT !.op = "batch", !.chains = chains,
                                   !.first = FirstOf(t, chains)])
  /\ last' = IF t = 1 THEN NoLast ELSE last
  /\ UNCHANGED now

\* A caller invokes get_token_price(chain): lines 202-212.
CallGet(t, c) ==
  /\ pc[t] = "idle"
  /\ Quiet
  /\ LET f0 == [NoFrame EXCEPT !.op = "get", !.chains = <<c>>,
                               !.cache0 = cache, !.now0 = now]
     IN IF IsPriceCached(c, cache, now)
        THEN /\ ReadCache(t)
             /\ UNCHANGED refetch
             /\ Exit(t, f0, [EmptyPrices EXCEPT ![c] = Val(cache[c].price)],
                     cache, "ok", FALSE, FALSE)
        ELSE EnterBatch(t, f0)
  /\ last' = IF t = 1 THEN NoLast ELSE last
  /\ UNCHANGED now

\* A task that waited for the lock gets it.
AcquireAfterWait(t) ==
  /\ pc[t] = "lock"
  /\ Quiet
  /\ lock = 0
  /\ Proceed(t, fr[t])
  /\ UNCHANGED <<now, last>>

\* The except block of lines 193-198, or the exception leaving the method.
Raise(t, f, kind, prices, cch, failed, answered) ==
  IF Caught(kind)
  THEN Exit(t, f, ExceptFill(prices, f.fetch), cch, "ok", failed, answered)
  ELSE Exit(t, f, EmptyPrices, cch, "raised", failed, answered)

\* Lines 176-189, from iteration f.k to the next suspension point.
RunLoop(t, f) ==
  LET stop == IF AwaitInWriteLoop THEN f.k ELSE Len(f.map)
      st == WriteLoop(f.map, f.data, f.k, stop,
                      [prices |-> f.prices, cache |-> cache, raised |-> FALSE],
                      f.ts)
  IN IF st.raised
     THEN Raise(t, f, "attr", st.prices, st.cache, FALSE, TRUE)
     ELSE IF stop < Len(f.map)
     THEN /\ cache' = st.cache
          /\ pc' = [pc EXCEPT ![t] = "write"]
          /\ fr' = [fr EXCEPT ![t] = [f EXCEPT !.k = stop + 1,
                                               !.prices = st.prices]]
          /\ UNCHANGED <<lock, rec>>
     ELSE Exit(t, f, st.prices, st.cache, "ok", FALSE, TRUE)

\* Lines 172-198: the oracle request of task t ends, with an error or with
\* a body, and the call runs on to its return.
Respond(t) ==
  /\ pc[t] \in {"http", "write"}
  /\ Quiet
  /\ IF pc[t] = "http"
     THEN \/ \E kind \in FailKinds :
               Raise(t, fr[t], kind, fr[t].prices, cache, TRUE, FALSE)
          \/ \E d \in DataFor(fr[t].ids) :
               RunLoop(t, [fr[t] EXCEPT !.data = d, !.ts = now, !.k = 1])
     ELSE RunLoop(t, fr[t])
  /\ UNCHANGED <<now, last, torn, overlap, refetch>>

\* get_all_fees is requested: main.py lines 85-93.
CallAll(t) ==
  /\ pc[t] = "idle"
  /\ Quiet
  /\ EnterBatch(t, [NoFrame EXCEPT !.op = "all", !.phase = "prefetch",
                                   !.chains = SupportedChains])
  /\ UNCHANGED <<now, last>>

\* /api/{chain}/stats/fees is requested: main.py lines 127-136 and
\* calculate_daily_fee lines 221-228, up to the host-zone request.
CallOne(t, name) ==
  /\ pc[t] = "idle"
  /\ Quiet
  /\ LET c == Normalize(name)
         f == [NoFrame EXCEPT !.op = "one", !.phase = "calc", !.chains = <<c>>]
     IN IF Lower(c) \notin DOMAIN CHAIN_ID_MAP
        THEN OneFailed(t, f, "ValueError")
        ELSE /\ pc' = [pc EXCEPT ![t] = "hz"]
             /\ fr' = [fr EXCEPT ![t] = [f EXCEPT !.hzreqs = 1]]
             /\ UNCHANGED rec
  /\ UNCHANGED <<cache, lock, now, last, torn, overlap, refetch>>

\* The host-zone request of calculate_daily_fee ends (lines 228-252) and the
\* price is looked up (line 255, get_token_price lines 205-211).
HostZone(t) ==
  /\ pc[t] = "hz"
  /\ Quiet
  /\ \E hz \in HostZones :
       LET c == CurChain(fr[t])
           f == [fr[t] EXCEPT !.hzlog[c] = hz]
       IN IF hz.k # "ok"
          THEN /\ Failed(t, f, ErrOf(hz))
               /\ UNCHANGED <<cache, lock, torn, overlap, refetch>>
          ELSE IF IsPriceCached(c, cache, now)
          THEN /\ ReadCache(t)
               /\ Priced(t, f, Val(cache[c].price))
               /\ UNCHANGED <<cache, lock, refetch>>
          ELSE EnterBatch(t, [f EXCEPT !.chains = <<c>>, !.phase = "calc"])
  /\ UNCHANGED <<now, last>>

\* The caller takes the result and goes on; track says whether the call is
\* remembered as the previous one.
Return(t, track) ==
  /\ pc[t] = "done"
  /\ pc' = [pc EXCEPT ![t] = "idle"]
  /\ rec' = [rec EXCEPT ![t] = NoRec]
  /\ last' = IF ~ track THEN last
             ELSE IF rec[t].op = "batch" /\ rec[t].status = "ok"
                     /\ now - rec[t].now1 < CacheDuration
             THEN [valid |-> TRUE, set |-> Range(rec[t].chains),
                   prices |-> rec[t].prices, t |-> rec[t].now1,
                   answered |-> rec[t].answered, data |-> rec[t].data,
                   cache1 |-> rec[t].cache1]
             ELSE NoLast
  /\ UNCHANGED <<cache, lock, now, fr, torn, overlap, refetch>>

\* Time passes; a previous call older than the cache window is forgotten.
Tick ==
  /\ now < MaxTime
  /\ Quiet
  /\ now' = now + 1
  /\ last' = IF last.valid /\ now + 1 - last.t >= CacheDuration
             THEN NoLast ELSE last
  /\ UNCHANGED <<cache, lock, pc, fr, rec, torn, overlap, refetch>>

\* Chain lists a caller may pass: every list of at most MaxLen names.
RECURSIVE ListsUpTo(_)
ListsUpTo(n) ==
  IF n = 0 THEN {<<>>}
  ELSE LET S == ListsUpTo(n - 1)
       IN S \cup {Append(s, c) : s \in {x \in S : Len(x) = n - 1}, c \in Chains}

BatchInputs == ListsUpTo(MaxLen)

\* One caller at a time: each call starts after the previous one returned.
SeqCallBatch == \E chains \in BatchInputs : CallBatch(1, chains)
SeqCallGet == \E c \in Chains : CallGet(1, c)
SeqRespond == Respond(1)
SeqReturn == Return(1, TRUE)

Next == SeqCallBatch \/ SeqCallGet \/ SeqRespond \/ SeqReturn \/ Tick

Spec == Init /\ [][Next]_vars

\* Concurrent callers of get_token_prices_batch and get_token_price.
ConcChains == {"cosmos", "terra2"}

\* Their chain lists: the non-empty lists of distinct names of ConcChains.
ConcInputs ==
  {s \in BatchInputs :
     s # <<>> /\ Range(s) \subseteq ConcChains /\ Cardinality(Range(s)) = Len(s)}

ConcCallBatch == \E t \in Tasks, chains \in ConcInputs : CallBatch(t, chains)
ConcCallGet == \E t \in Tasks, c \in ConcChains : CallGet(t, c)
ConcAcquire == \E t \in Tasks : AcquireAfterWait(t)
ConcRespond == \E t \in Tasks : Respond(t)
ConcReturn == \E t \in Tasks : Return(t, FALSE)

NextConc ==
  \/ ConcCallBatch
  \/ ConcCallGet
  \/ ConcAcquire
  \/ ConcRespond
  \/ ConcReturn
  \/ Tick

SpecConc == Init /\ [][NextConc]_vars

\* Concurrent callers of get_token_prices_batch and get_token_price and
\* concurrent requests of /api/{chain}/stats/fees.
MixNames == {"Terra", "bitcoin"}
MixInputs == {<<"cosmos", "terra2">>}

MixCallBatch == \E t \in Tasks, chains \in MixInputs : CallBatch(t, chains)
MixCallGet == \E t \in Tasks : CallGet(t, "cosmos")
MixCallOne == \E t \in Tasks, name \in MixNames : CallOne(t, name)
MixHostZone == \E t \in Tasks : HostZone(t)
MixAcquire == \E t \in Tasks : AcquireAfterWait(t)
MixRespond == \E t \in Tasks : Respond(t)
MixReturn == \E t \in Tasks : Return(t, FALSE)

NextMix ==
  \/ MixCallBatch
  \/ MixCallGet
  \/ MixCallOne
  \/ MixHostZone
  \/ MixAcquire
  \/ MixRespond
  \/ MixReturn
  \/ Tick

SpecMix == Init /\ [][NextMix]_vars

\* Callers that ask for the same set of chains while they overlap: a call
\* starts only when every call under way is for its set.
BurstInputs == {<<"cosmos">>, <<"cosmos", "terra2">>, <<"terra", "terra2">>}

SameAsActive(S) ==
  \A u \in Tasks : pc[u] # "idle" => Range(fr[u].chains) = S

BurstCallBatch ==
  \E t \in Tasks, chains \in BurstInputs :
    SameAsActive(Range(chains)) /\ CallBatch(t, chains)
BurstCallGet ==
  \E t \in Tasks : SameAsActive({"cosmos"}) /\ CallGet(t, "cosmos")
BurstAcquire == \E t \in Tasks : AcquireAfterWait(t)
BurstRespond == \E t \in Tasks : Respond(t)
BurstReturn == \E t \in Tasks : Return(t, FALSE)

NextBurst ==
  \/ BurstCallBatch
  \/ BurstCallGet
  \/ BurstAcquire
  \/ BurstRespond
  \/ BurstReturn
  \/ Tick

SpecBurst == Init /\ [][NextBurst]_vars

\* Concurrent callers with the scheduling of the event loop: every oracle
\* request ends (the client's timeout is 30 s), every returned call is taken
\* by its caller, and a caller waiting for the lock gets it when it is free
\* often enough (asyncio.Lock wakes its waiters first come, first served).
LiveInputs == {<<"cosmos", "terra2">>}

LiveCallBatch == \E t \in Tasks, chains \in LiveInputs : CallBatch(t, chains)
LiveCallGet == \E t \in Tasks : CallGet(t, "cosmos")
LiveAcquire == \E t \in Tasks : AcquireAfterWait(t)
LiveRespond == \E t \in Tasks : Respond(t)
LiveReturn == \E t \in Tasks : Return(t, FALSE)

NextLive ==
  \/ LiveCallBatch
  \/ LiveCallGet
  \/ LiveAcquire
  \/ LiveRespond
  \/ LiveReturn
  \/ Tick

Fairness ==
  \A t \in Tasks :
    /\ SF_vars(Respond(t))
    /\ SF_vars(AcquireAfterWait(t))
    /\ WF_vars(Return(t, FALSE))

SpecLive == Init /\ [][NextLive]_vars /\ Fairness

\* One request of /api/all/stats/fees after the other.
ReqCallAll == CallAll(1)
ReqHostZone == HostZone(1)
ReqRespond == Respond(1)
ReqReturn == Return(1, FALSE)

NextReq == ReqCallAll \/ ReqHostZone \/ ReqRespond \/ ReqReturn \/ Tick

SpecReq == Init /\ [][NextReq]_vars

\* One request of /api/{chain}/stats/fees after the other.
OneCall == \E name \in Names : CallOne(1, name)
OneHostZone == HostZone(1)
OneRespond == Respond(1)
OneReturn == Return(1, FALSE)

NextOne == OneCall \/ OneHostZone \/ OneRespond \/ OneReturn \/ Tick

SpecOne == Init /\ [][NextOne]_vars

\* get_token_prices_batch as a function: the partition runs on cache cch at
\* time t0 and the request, if one is sent, ends at time t1 with an error
\* (failed) or with the body data.
BatchResult(chains, cch, t0, failed, data, t1) ==
  LET p == Partition(chains, cch, t0)
      r == ResolveIds(p.fetch)
      st == WriteLoop(r.map, data, 1, Len(r.map),
                      [prices |-> p.prices, cache |-> cch, raised |-> FALSE], t1)
  IN IF r.ids = <<>>
     THEN [prices |-> p.prices, cache |-> cch, reqs |-> <<>>]
     ELSE IF failed
     THEN [prices |-> ExceptFill(p.prices, p.fetch), cache |-> cch,
           reqs |-> <<r.ids>>]
     ELSE [prices |-> IF st.raised THEN ExceptFill(st.prices, p.fetch)
                      ELSE st.prices,
           cache |-> st.cache, reqs |-> <<r.ids>>]

\* =================================================================== claims
Known(c) == c \in DOMAIN COINGECKO_IDS

BatchDone(t) == pc[t] = "done" /\ rec[t].op = "batch"

GetDone(t) == pc[t] = "done" /\ rec[t].op = "get"

\* Chain c had no usable entry when call r looked at the cache.
StaleAt(r, c) ==
  \/ ~ r.cache0[c].has
  \/ r.now0 - r.cache0[c].timestamp >= CacheDuration

ToFetch(r) == {c \in Range(r.chains) : StaleAt(r, c)}

Need(r) == {c \in ToFetch(r) : Known(c)}

\* The body answers every requested id with a price or with nothing.
WellFormed(r) == \A i \in Ids : r.data[i] # Bad

\* C1: get_token_prices_batch never raises: whatever the oracle does, the call
\* returns a mapping, and when the request failed every chain that was stale
\* or absent is mapped to None.
C1_NeverRaises ==
  \A t \in Tasks : BatchDone(t) =>
    /\ rec[t].status = "ok"
    /\ rec[t].failed => \A c \in ToFetch(rec[t]) : rec[t].prices[c] = None

C1_Witness ==
  \E t \in Tasks :
    /\ BatchDone(t)
    /\ rec[t].failed
    /\ Need(rec[t]) # {}
    /\ Range(rec[t].chains) \ ToFetch(rec[t]) # {}

\* The first call got every price of the set from the oracle in that call.
FetchedAll(fst) ==
  \A c \in fst.set :
    /\ fst.prices[c].k = "val"
    /\ fst.cache1[c] = Entry(fst.prices[c].v, fst.t)

\* Whenever both calls got a body from the oracle, the bodies agree.
SameData(r) == (r.first.answered /\ r.answered) => r.first.data = r.data

SecondCall(r) ==
  /\ r.first.valid
  /\ r.now0 - r.first.t < CacheDuration
  /\ SameData(r)

SecondCallServed(r) ==
  /\ r.reqs = <<>>
  /\ \A c \in Range(r.chains) : r.prices[c] = r.first.prices[c]

\* C2 (as stated): a call for the same set of chains less than the cache
\* window after a first call, with no upstream change, sends no request and
\* returns the prices of the first call.
C2_Original == BatchDone(1) /\ SecondCall(rec[1]) => SecondCallServed(rec[1])

\* C2 (amended): the same, when the first call fetched the price of every
\* chain of the set from the oracle in that call.
C2_Amended ==
  BatchDone(1) /\ SecondCall(rec[1]) /\ FetchedAll(rec[1].first)
    => SecondCallServed(rec[1])

C2_Witness ==
  /\ BatchDone(1)
  /\ SecondCall(rec[1])
  /\ FetchedAll(rec[1].first)
  /\ Cardinality(rec[1].first.set) = 2
  /\ rec[1].now0 > rec[1].first.t
  /\ rec[1].reqs = <<>>

\* C3: one call sends at most one oracle request: exactly one, naming the ids
\* of all stale or absent chains that have one, when there is such a chain,
\* and none otherwise; an empty chain list gives an empty mapping.
C3_OneRequest ==
  \A t \in Tasks : BatchDone(t) =>
    /\ Len(rec[t].reqs) <= 1
    /\ (Len(rec[t].reqs) = 1) <=> (Need(rec[t]) # {})
    /\ Len(rec[t].reqs) = 1 =>
         Range(rec[t].reqs[1]) = {COINGECKO_IDS[c] : c \in Need(rec[t])}
    /\ rec[t].chains = <<>> => Keys(rec[t].prices) = {}

C3_Witness ==
  \E t \in Tasks :
    /\ BatchDone(t)
    /\ Len(rec[t].reqs) = 1
    /\ Cardinality(Range(rec[t].reqs[1])) = 2

\* C4: a call changes the cache entry of a chain only when its request was
\* answered with a price for that chain, and then to that price at the time
\* of the call; a failed request, or a body without the price, leaves the
\* entry (or its absence) as it was.
C4_CacheFrame ==
  \A t \in Tasks : BatchDone(t) =>
    \A c \in Chains :
      rec[t].cache1[c] # rec[t].cache0[c] =>
        /\ rec[t].answered
        /\ Known(c)
        /\ rec[t].data[COINGECKO_IDS[c]].k = "val"
        /\ rec[t].cache1[c] =
             Entry(rec[t].data[COINGECKO_IDS[c]].v, rec[t].now1)

C4_Witness ==
  \E t \in Tasks :
    /\ BatchDone(t)
    /\ \E c \in Need(rec[t]) :
         /\ rec[t].cache0[c].has
         /\ rec[t].cache1[c] = rec[t].cache0[c]
         /\ \/ rec[t].failed
            \/ rec[t].answered /\ rec[t].data[COINGECKO_IDS[c]] = None

\* C5: after a call whose request was answered, every chain that was stale or
\* absent and has an id is returned with the price the body holds for its id
\* and cached with it at the time of the call, or returned as None when the
\* body holds no price for the id.
C5_FetchedStored ==
  \A t \in Tasks : BatchDone(t) /\ rec[t].answered /\ WellFormed(rec[t]) =>
    \A c \in Need(rec[t]) :
      LET v == rec[t].data[COINGECKO_IDS[c]] IN
      IF v.k = "val"
      THEN /\ rec[t].prices[c] = v
           /\ rec[t].cache1[c] = Entry(v.v, rec[t].now1)
      ELSE rec[t].prices[c] = None

\* C6: the returned mapping has exactly the requested chains as keys; a chain
\* without an id is mapped to None, is not asked of the oracle and gets no
\* cache entry.
C6_KeysAreRequested ==
  \A t \in Tasks : BatchDone(t) =>
    /\ Keys(rec[t].prices) = Range(rec[t].chains)
    /\ \A c \in Range(rec[t].chains) \ DOMAIN COINGECKO_IDS :
         /\ rec[t].prices[c] = None
         /\ ~ rec[t].cache1[c].has
    /\ Need(rec[t]) = {} => rec[t].reqs = <<>>

\* C7: get_token_price(chain) and get_token_prices_batch([chain])[chain], run
\* on the same cache with the same oracle outcome, return the same value, send
\* the same requests and leave the same cache.
C7_GetIsBatch ==
  \A t \in Tasks : GetDone(t) =>
    LET r == rec[t]
        c == r.chains[1]
        b == BatchResult(<<c>>, r.cache0, r.now0, r.failed, r.data, r.now1)
    IN /\ c \in Keys(b.prices)
       /\ r.ret = b.prices[c]
       /\ r.reqs = b.reqs
       /\ r.cache1 = b.cache

\* C8: no call reads the price cache while another call has run some but not
\* all iterations of its write-back, the unlocked check of get_token_price
\* included.
C8_NoTornRead == ~ torn

C8_Witness ==
  /\ overlap
  /\ \E t \in Tasks :
       /\ BatchDone(t)
       /\ Cardinality({c \in Chains : rec[t].cache1[c] # rec[t].cache0[c]}) >= 2

AllDone(t) == pc[t] = "done" /\ rec[t].op = "all"

\* C9: /api/all/stats/fees answers 200 with one entry for every built-in
\* chain, whatever chains fail and whatever the oracle does: a chain whose
\* host zone or calculation failed holds {dailyFees: 0, dailyRevenue: 0,
\* error}, every other chain holds the fees computed from its host zone and
\* price.
C9_AllFeesIsolated ==
  \A t \in Tasks : AllDone(t) =>
    /\ rec[t].http = 200
    /\ \A c \in Chains :
         IF c \notin Range(SupportedChains) THEN rec[t].results[c] = NoResult
         ELSE IF rec[t].hzlog[c].k # "ok" THEN rec[t].results[c] = ErrEntry
         ELSE /\ rec[t].results[c].k = "fees"
              /\ rec[t].results[c].dailyRevenue =
                   rec[t].hzlog[c].staked * rec[t].hzlog[c].rate * 5
                     * (IF rec[t].plog[c].k = "val" THEN rec[t].plog[c].v ELSE 0)
              /\ rec[t].results[c].dailyFees = 10 * rec[t].results[c].dailyRevenue

C9_Witness ==
  \E t \in Tasks :
    /\ AllDone(t)
    /\ rec[t].http = 200
    /\ rec[t].results["cosmos"] = ErrEntry
    /\ rec[t].results["terra2"].k = "fees"
    /\ rec[t].results["terra2"].dailyFees > 0

\* C10: one /api/all/stats/fees request sends at most one oracle request, the
\* pre-fetch; the fee calculations that follow send none.
C10_OnePrefetch ==
  \A t \in Tasks : AllDone(t) =>
    /\ Len(rec[t].reqs) <= 1
    /\ Len(rec[t].reqs) = rec[t].pre

OneDone(t) == pc[t] = "done" /\ rec[t].op = "one"

\* The chain name is recognized by calculate_daily_fee.
Recognized(c) == c \in DOMAIN CHAIN_ID_MAP

\* C11: on /api/{chain}/stats/fees, a recognized chain whose host zone cannot
\* be retrieved (request failed, or no host zone registered) is answered with
\* 500, not with 404.
C11_NoHostZoneIs500 ==
  \A t \in Tasks : OneDone(t) =>
    LET c == rec[t].chains[1] IN
    Recognized(c) /\ rec[t].hzlog[c] = NoZone => rec[t].http = 500

\* C12: on /api/{chain}/stats/fees, a chain name without a chain descriptor is
\* answered with 404, never with 500, whatever the cache holds, and neither a
\* host-zone request nor an oracle request is sent for it.
C12_UnknownIs404 ==
  \A t \in Tasks : OneDone(t) =>
    LET c == rec[t].chains[1] IN
    ~ Recognized(c) =>
      /\ rec[t].http = 404
      /\ rec[t].hzreqs = 0
      /\ rec[t].reqs = <<>>

C12_Witness ==
  \E t \in Tasks :
    /\ OneDone(t)
    /\ ~ Recognized(rec[t].chains[1])
    /\ rec[t].http = 404
    /\ \E c \in Chains : cache[c].has /\ now - cache[c].timestamp >= CacheDuration

\* C13: for a recognized chain whose host zone is retrieved, the calculation
\* does not fail, and when the price resolves to None (request failed, or no
\* price in the body) dailyFees and dailyRevenue are 0.
C13_MissingPriceIsZero ==
  \A t \in Tasks : OneDone(t) =>
    LET c == rec[t].chains[1] IN
    Recognized(c) /\ rec[t].hzlog[c].k = "ok" =>
      /\ rec[t].http = 200
      /\ rec[t].results[c].k = "fees"
      /\ rec[t].plog[c].k # "val" => rec[t].results[c] = FeeEntry(0, 0)

C13_Witness ==
  \E t \in Tasks :
    /\ OneDone(t)
    /\ rec[t].hzlog[rec[t].chains[1]].k = "ok"
    /\ rec[t].hzlog[rec[t].chains[1]].staked > 0
    /\ rec[t].plog[rec[t].chains[1]] = None
    /\ Len(rec[t].reqs) = 1
    /\ rec[t].results[rec[t].chains[1]] = FeeEntry(0, 0)

\* C14: every fee estimate calculate_daily_fee returns has dailyFees >= 0 and
\* dailyRevenue >= 0, whatever host zone the gateway returned (a negative
\* total delegated stake included) and whatever the price.
C14_NonNegative ==
  \A t \in Tasks : OneDone(t) =>
    \A c \in Chains :
      rec[t].results[c].k = "fees" =>
        /\ rec[t].results[c].dailyFees >= 0
        /\ rec[t].results[c].dailyRevenue >= 0

\* The list without the later occurrences of a name.
RECURSIVE DedupFrom(_, _, _)
DedupFrom(chains, i, acc) ==
  IF i > Len(chains) THEN acc
  ELSE DedupFrom(chains, i + 1,
                 IF chains[i] \in Range(acc) THEN acc ELSE Append(acc, chains[i]))

Dedup(chains) == DedupFrom(chains, 1, <<>>)

NoDuplicates(q) == Cardinality(Range(q)) = Len(q)

\* C15: a chain list with duplicates gives the returned mapping, the cache and
\* the oracle request of the list without them, and the request names each
\* id at most once, also when two names of the list share an id.
C15_ArgumentIsSet ==
  \A t \in Tasks : BatchDone(t) =>
    LET r == rec[t]
        b == BatchResult(Dedup(r.chains), r.cache0, r.now0, r.failed, r.data,
                         r.now1)
    IN /\ r.prices = b.prices
       /\ r.cache1 = b.cache
       /\ r.reqs = b.reqs
       /\ \A i \in DOMAIN r.reqs : NoDuplicates(r.reqs[i])

InFlight == {t \in Tasks : pc[t] = "http"}

\* C16: at most one oracle request is outstanding at any time, and the call
\* it belongs to holds the lock, under every interleaving of callers of
\* get_token_price, get_token_prices_batch and the fee calculation.
C16_OneInFlight ==
  /\ Cardinality(InFlight) <= 1
  /\ \A t \in InFlight : lock = t

C16_Witness ==
  \E t \in InFlight, u \in Tasks :
    /\ fr[t].op = "one"
    /\ pc[u] = "lock"
    /\ fr[u].op # "one"

\* C17: when callers ask for the same set of chains at the same time and the
\* oracle answers with a price for each chain, one request is sent in all:
\* a caller that waited for the lock finds the prices in the cache when it
\* has the lock and sends no request.
C17_WaitersServed == ~ refetch

\* C18: get_token_price and get_token_prices_batch return a cached price only
\* for an entry younger than the cache window when the call reads it: for a
\* chain whose entry is absent or has reached the window, the price returned
\* is the one the oracle answered in this call, or None, also when the
\* request fails.
C18_FreshOnly ==
  \A t \in Tasks : BatchDone(t) \/ GetDone(t) =>
    \A c \in Range(rec[t].chains) :
      StaleAt(rec[t], c) /\ rec[t].prices[c].k = "val" =>
        /\ rec[t].answered
        /\ Known(c)
        /\ rec[t].data[COINGECKO_IDS[c]] = rec[t].prices[c]

C18_Witness ==
  \E t \in Tasks :
    /\ BatchDone(t) \/ GetDone(t)
    /\ rec[t].failed
    /\ \E c \in Range(rec[t].chains) :
         /\ rec[t].cache0[c].has
         /\ rec[t].now0 - rec[t].cache0[c].timestamp = CacheDuration
         /\ rec[t].prices[c] = None

\* Every entry of the cache holds a price and the time it was written at.
EntriesValid ==
  \A c \in Chains :
    cache[c].has => cache[c].price \in Prices /\ cache[c].timestamp \in 0 .. now

\* No step deletes an entry.
EntriesKept == \A c \in Chains : cache[c].has => cache'[c].has

\* C20: in every reachable state every cache entry holds a price that is not
\* None and a timestamp, and no step of any call deletes an entry.
C20_EntriesPriced == [] EntriesValid /\ [][EntriesKept]_vars

C20_Witness ==
  \E t \in Tasks :
    /\ BatchDone(t)
    /\ rec[t].answered
    /\ \E c, d \in Need(rec[t]) :
         /\ rec[t].data[COINGECKO_IDS[c]] = None
         /\ rec[t].cache0[c].has
         /\ cache[c] = rec[t].cache0[c]
         /\ rec[t].data[COINGECKO_IDS[d]].k = "val"
         /\ cache[d].timestamp = rec[t].now1

\* C19: the lock is always released: a call that holds the lock or waits
\* for it eventually returns to its caller without the lock, whether its
\* request succeeds, fails or times out, so no caller waits forever.
C19_LockReleased ==
  \A t \in Tasks :
    (pc[t] \in {"lock", "http", "write"}) ~> (pc[t] = "done" /\ lock # t)

C19_Witness ==
  \E t, u \in Tasks :
    /\ pc[t] = "done"
    /\ rec[t].failed
    /\ lock = 0
    /\ pc[u] = "lock"

====
